---- MODULE Spec2Model ----
(***************************************************************************)
(* Ticket lifecycle of the Cosmetic Detective API (src/api/main.py):       *)
(* the tickets, results and ticket_events tables, and the request          *)
(* handlers create_ticket, claim_ticket, unclaim_ticket, update_status and *)
(* create_result, with the readers get_ticket, get_result and list_events. *)
(*                                                                         *)
(* Every handler is a sequence of steps against the database, each step a  *)
(* pure operator from (world, session) to (world, session):                *)
(*   start        db.get(Ticket, id), the checks and the attribute writes  *)
(*                made on the session's copy of the row (create_ticket:    *)
(*                the length check and the uploads)                        *)
(*   commit       db.commit(): the UPDATE/INSERT of the unit of work       *)
(*   refresh      db.refresh(obj): the row is read again; record_event     *)
(*                then builds the TicketEvent (at = utcnow()), which       *)
(*                touches no table and so needs no step of its own         *)
(*   event_commit record_event's db.commit(): the INSERT of the event      *)
(*   return       the response model is built from the (expired, hence     *)
(*                reloaded) object                                         *)
(* Spec runs each handler as one action (all its steps at once); SpecConc  *)
(* lets the steps of requests served by different workers interleave.      *)
(*                                                                         *)
(* brand, category and notes are passed through untouched by every handler *)
(* and are left out; the image URLs are kept as their number. Requests     *)
(* carry a valid API key. datetime.utcnow() is a logical clock that        *)
(* advances at every reading.                                              *)
(***************************************************************************)
EXTENDS Integers, Sequences, FiniteSets, TLC

VARIABLES
    tickets,    \* tickets table: ticket id -> row
    results,    \* results table: ticket id -> row (ticket_id is UNIQUE)
    events,     \* ticket_events table, in insertion (autoincrement id) order
    blobs,      \* object store: the set of keys <<ticket id, image index>>
    now,        \* the last value datetime.utcnow() returned
    nextId,     \* the next fresh uuid4
    reqs,       \* worker -> the session of the request it serves
    snap,       \* the database when the current batch of requests opened
    batch,      \* the workers that began a request in the current batch
    races       \* the batches so far in which a second request joined

vars == <<tickets, results, events, blobs, now, nextId, reqs, snap, batch, races>>

---------------------------------------------------------------------------
\* Bounds of the model.

\* uuid4 values that create_ticket may draw.
MaxTickets == 2
\* Rows of ticket_events; no request begins once the table may reach it.
MaxEvents == 4
\* Threads serving requests at the same time.
NumWorkers == 2
\* Batches in which requests are served at the same time.
MaxRaces == 1

\* Program constants.
MinImages == 1
MaxImages == 5

---------------------------------------------------------------------------
\* Optional[...] values: None, or Some(x).

None == <<>>

Some(x) == <<x>>

\* Python's truth value of an Optional[str]: None and "" are both false.
Truthy(o) == o # None /\ o[1] # ""

Statuses == {"submitted", "in_review", "resolved", "need_more_info", "rejected"}

Verdicts == {"authentic", "inauthentic", "undetermined"}

ALLOWED_TRANSITIONS ==
    [from \in Statuses |->
        CASE from = "submitted" -> {"in_review", "rejected", "need_more_info"}
          [] from = "in_review" -> {"resolved", "rejected", "need_more_info"}
          [] from = "need_more_info" -> {"in_review", "rejected"}
          [] from = "rejected" -> {}
          [] from = "resolved" -> {}]

\* The inputs requests are drawn from.
Workers == 1..NumWorkers

TicketIds == 1..MaxTickets

Reviewers == {"", "rev_001", "rev_002"}

\* create_ticket's form: the image count, the image whose upload raises
\* (0: none does) and user_id.
SubmitInputs ==
    {[nimg |-> MinImages - 1, failAt |-> 0, user |-> None],
     [nimg |-> MinImages, failAt |-> 0, user |-> None],
     [nimg |-> MaxImages, failAt |-> 0, user |-> Some("kev")],
     [nimg |-> MaxImages, failAt |-> 3, user |-> Some("kev")],
     [nimg |-> MaxImages + 1, failAt |-> 0, user |-> None]}

\* ResultIn payloads.
ResultInputs ==
    {[verdict |-> "authentic", rationale |-> None, reviewer |-> None],
     [verdict |-> "inauthentic", rationale |-> Some("batch code differs"),
      reviewer |-> Some("rev_001")],
     [verdict |-> "undetermined", rationale |-> Some(""),
      reviewer |-> Some("rev_002")]}

---------------------------------------------------------------------------
\* The database and the session of one request.

World == [tickets |-> tickets, results |-> results, events |-> events,
          blobs |-> blobs, now |-> now, nextId |-> nextId]

EmptyWorld == [tickets |-> <<>>, results |-> <<>>, events |-> <<>>,
               blobs |-> {}, now |-> 0, nextId |-> 1]

\* A request that has not begun: the fields of a session.
\*   op, id, rid, to, verdict, rationale, user, nimg, failAt: the request
\*   base: the row as db.get loaded it;  t: the session's copy of the row
\*   prev: prev_status / from_status;  r: the Result built;  ev: the event
\*   code, detail, tbody, rbody, ebody: the response (a ticket, a Result,
\*   a list of events)
Idle == [pc |-> "idle", op |-> "none", id |-> 0, rid |-> None, to |-> "",
         verdict |-> "", rationale |-> None, user |-> None, nimg |-> 0,
         failAt |-> 0, base |-> None, t |-> None, prev |-> None, r |-> None,
         ev |-> None, code |-> 0, detail |-> "", tbody |-> None,
         rbody |-> None, ebody |-> None]

Exists(w, id) == id \in DOMAIN w.tickets

\* raise HTTPException(status_code, detail). A detail that the handler
\* completes with the values at hand ("Illegal transition: a -> b",
\* "Upload failed: ...") is kept as its fixed part.
Fail(s, code, detail) == [s EXCEPT !.pc = "done", !.code = code, !.detail = detail]

\* The UPDATE a flush emits sets the columns whose value on the session's
\* copy differs from the value loaded; the other columns keep what the
\* table holds.
FlushCol(row, base, t, c) == IF t[c] # base[c] THEN t[c] ELSE row[c]

Flush(row, base, t) ==
    [user_id |-> FlushCol(row, base, t, "user_id"),
     status |-> FlushCol(row, base, t, "status"),
     images |-> FlushCol(row, base, t, "images"),
     assigned_reviewer_id |-> FlushCol(row, base, t, "assigned_reviewer_id"),
     claimed_at |-> FlushCol(row, base, t, "claimed_at"),
     created_at |-> FlushCol(row, base, t, "created_at"),
     updated_at |-> FlushCol(row, base, t, "updated_at")]

\* record_event's TicketEvent(...), at = datetime.utcnow().
NewEvent(w, id, kind, actor, from, to) ==
    [ticket_id |-> id, kind |-> kind, actor_id |-> actor,
     from_status |-> from, to_status |-> to, at |-> w.now + 1]

\* The steps every handler shares once its unit of work is committed.
\* record_event: e = TicketEvent(...)
StepEvent(w, s, kind, actor, from, to) ==
    [w |-> [w EXCEPT !.now = w.now + 1],
     s |-> [s EXCEPT !.pc = "event_commit",
                     !.ev = Some(NewEvent(w, s.id, kind, actor, from, to))]]

\* record_event: db.add(e); db.commit()
StepEventCommit(w, s) ==
    [w |-> [w EXCEPT !.events = Append(w.events, s.ev[1])],
     s |-> [s EXCEPT !.pc = "return"]]

\* db.refresh(t)
StepRefresh(w, s) ==
    [w |-> w, s |-> [s EXCEPT !.pc = "event", !.t = Some(w.tickets[s.id])]]

\* return TicketOut(id=t.id, ...): t expired at the last commit, so its
\* attributes are loaded again.
StepReturnTicket(w, s) ==
    [w |-> w,
     s |-> [s EXCEPT !.pc = "done", !.code = 200,
                     !.tbody = Some(w.tickets[s.id])]]

\* db.add(t); db.commit() of a loaded ticket.
StepCommitTicket(w, s) ==
    [w |-> [w EXCEPT !.tickets[s.id] = Flush(w.tickets[s.id], s.base[1], s.t[1])],
     s |-> [s EXCEPT !.pc = "refresh"]]

---------------------------------------------------------------------------
\* claim_ticket

\* ClaimConflict with a slip: any holder is a conflict, the caller included.
ClaimConflictAnyHolder(t, reviewer) == Truthy(t.assigned_reviewer_id)

\* if t.assigned_reviewer_id and t.assigned_reviewer_id != payload.reviewer_id
ClaimConflict(t, reviewer) ==
    Truthy(t.assigned_reviewer_id) /\ t.assigned_reviewer_id # Some(reviewer)

\* ClaimStatus with a slip: need_more_info is left out of the test.
ClaimStatusSubmittedOnly(status) ==
    IF status = "submitted" THEN "in_review" ELSE status

\* if t.status in ("submitted", "need_more_info"): t.status = "in_review"
ClaimStatus(status) ==
    IF status \in {"submitted", "need_more_info"} THEN "in_review" ELSE status

ClaimGet(w, s) ==
    IF ~Exists(w, s.id)
    THEN [w |-> w, s |-> Fail(s, 404, "Ticket not found")]
    ELSE LET t == w.tickets[s.id] IN
         IF ClaimConflict(t, s.rid[1])
         THEN [w |-> w,
               s |-> Fail(s, 409, "Ticket already claimed by another reviewer")]
         ELSE [w |-> [w EXCEPT !.now = w.now + 2],
               s |-> [s EXCEPT !.pc = "commit", !.base = Some(t),
                         !.prev = Some(t.status),
                         !.t = Some([t EXCEPT
                                 !.status = ClaimStatus(t.status),
                                 !.assigned_reviewer_id = s.rid,
                                 !.claimed_at = Some(w.now + 1),
                                 !.updated_at = w.now + 2])]]

ClaimStep(w, s) ==
    CASE s.pc = "start" -> ClaimGet(w, s)
      [] s.pc = "commit" -> StepCommitTicket(w, s)
      [] s.pc = "refresh" ->
            LET n == StepRefresh(w, s) IN
            StepEvent(n.w, n.s, "claimed", n.s.rid, n.s.prev, Some(n.s.t[1].status))
      [] s.pc = "event_commit" -> StepEventCommit(w, s)
      [] s.pc = "return" -> StepReturnTicket(w, s)

---------------------------------------------------------------------------
\* unclaim_ticket

\* Unassigned with a slip: the status goes back to submitted.
UnassignedReverted(t, at) ==
    [t EXCEPT !.assigned_reviewer_id = None, !.claimed_at = None,
              !.status = "submitted", !.updated_at = at]

\* t.assigned_reviewer_id = None; t.claimed_at = None; t.updated_at = utcnow()
Unassigned(t, at) ==
    [t EXCEPT !.assigned_reviewer_id = None, !.claimed_at = None,
              !.updated_at = at]

UnclaimGet(w, s) ==
    IF ~Exists(w, s.id)
    THEN [w |-> w, s |-> Fail(s, 404, "Ticket not found")]
    ELSE LET t == w.tickets[s.id] IN
         IF ~Truthy(t.assigned_reviewer_id)
         THEN [w |-> w, s |-> Fail(s, 400, "Ticket is not claimed")]
         ELSE IF t.assigned_reviewer_id # s.rid
         THEN [w |-> w,
               s |-> Fail(s, 403, "Only the assigned reviewer can unclaim")]
         ELSE [w |-> [w EXCEPT !.now = w.now + 1],
               s |-> [s EXCEPT !.pc = "commit", !.base = Some(t),
                         !.t = Some(Unassigned(t, w.now + 1))]]

UnclaimStep(w, s) ==
    CASE s.pc = "start" -> UnclaimGet(w, s)
      [] s.pc = "commit" -> StepCommitTicket(w, s)
      [] s.pc = "refresh" ->
            LET n == StepRefresh(w, s) IN
            StepEvent(n.w, n.s, "unclaimed", n.s.rid, None, None)
      [] s.pc = "event_commit" -> StepEventCommit(w, s)
      [] s.pc = "return" -> StepReturnTicket(w, s)

---------------------------------------------------------------------------
\* update_status

\* Allowed with a slip: every status may also move to resolved.
AllowedOrResolved(from) ==
    IF from \in DOMAIN ALLOWED_TRANSITIONS
    THEN ALLOWED_TRANSITIONS[from] \cup {"resolved"} ELSE {}

\* ALLOWED_TRANSITIONS.get(from_status, set())
Allowed(from) ==
    IF from \in DOMAIN ALLOWED_TRANSITIONS THEN ALLOWED_TRANSITIONS[from] ELSE {}

\* Moved with a slip: a ticket that leaves review loses its reviewer.
MovedReleased(t, to, at) ==
    [t EXCEPT !.status = to, !.updated_at = at,
              !.assigned_reviewer_id = IF to = "in_review" THEN @ ELSE None,
              !.claimed_at = IF to = "in_review" THEN @ ELSE None]

\* t.status = to_status; t.updated_at = utcnow()
Moved(t, to, at) == [t EXCEPT !.status = to, !.updated_at = at]

UpdateStatusGet(w, s) ==
    IF ~Exists(w, s.id)
    THEN [w |-> w, s |-> Fail(s, 404, "Ticket not found")]
    ELSE LET t == w.tickets[s.id] IN
         IF s.to \notin Allowed(t.status)
         THEN [w |-> w, s |-> Fail(s, 400, "Illegal transition")]
         ELSE [w |-> [w EXCEPT !.now = w.now + 1],
               s |-> [s EXCEPT !.pc = "commit", !.base = Some(t),
                         !.prev = Some(t.status),
                         !.t = Some(Moved(t, s.to, w.now + 1))]]

UpdateStatusStep(w, s) ==
    CASE s.pc = "start" -> UpdateStatusGet(w, s)
      [] s.pc = "commit" -> StepCommitTicket(w, s)
      [] s.pc = "refresh" ->
            LET n == StepRefresh(w, s) IN
            StepEvent(n.w, n.s, "status_changed", None, n.s.prev, Some(n.s.to))
      [] s.pc = "event_commit" -> StepEventCommit(w, s)
      [] s.pc = "return" -> StepReturnTicket(w, s)

---------------------------------------------------------------------------
\* create_result

\* t = db.get(Ticket, ticket_id)
ResultGet(w, s) ==
    IF ~Exists(w, s.id)
    THEN [w |-> w, s |-> Fail(s, 404, "Ticket not found")]
    ELSE [w |-> w,
          s |-> [s EXCEPT !.pc = "lazy", !.base = Some(w.tickets[s.id]),
                          !.t = Some(w.tickets[s.id])]]

\* HasResult with a slip: an existing Result is never seen.
HasResultUnchecked(w, id) == FALSE

\* if t.result is not None (the relationship is loaded here)
HasResult(w, id) == id \in DOMAIN w.results

\* payload.rationale or ""
RationaleOrEmpty(rationale) == IF Truthy(rationale) THEN rationale[1] ELSE ""

\* ResultStatus with a slip: the ticket is resolved only along the table's
\* edge in_review -> resolved.
ResultStatusByTable(status) ==
    IF status = "in_review" THEN "resolved" ELSE status

\* t.status = "resolved", whatever the status was.
ResultStatus(status) == "resolved"

\* t.result is loaded and checked; r = Result(...); the ticket is resolved.
ResultBuild(w, s) ==
    IF HasResult(w, s.id)
    THEN [w |-> w, s |-> Fail(s, 400, "Result already exists for this ticket")]
    ELSE [w |-> [w EXCEPT !.now = w.now + 2],
          s |-> [s EXCEPT !.pc = "commit",
                    !.r = Some([ticket_id |-> s.id, verdict |-> s.verdict,
                                rationale |-> RationaleOrEmpty(s.rationale),
                                reviewer_id |-> s.rid,
                                reviewed_at |-> w.now + 1]),
                    !.prev = Some(s.t[1].status),
                    !.t = Some([s.t[1] EXCEPT
                                  !.status = ResultStatus(s.t[1].status),
                                  !.updated_at = w.now + 2])]]

\* db.add_all([r, t]); db.commit(): the INSERT violates UNIQUE(ticket_id)
\* when a row for the ticket exists; the transaction is rolled back and the
\* IntegrityError leaves the handler (500).
ResultCommit(w, s) ==
    IF s.id \in DOMAIN w.results
    THEN [w |-> w, s |-> Fail(s, 500, "Internal Server Error")]
    ELSE [w |-> [w EXCEPT
                   !.results = (s.id :> s.r[1]) @@ w.results,
                   !.tickets[s.id] = Flush(w.tickets[s.id], s.base[1], s.t[1])],
          s |-> [s EXCEPT !.pc = "refresh"]]

\* db.refresh(r)
ResultRefresh(w, s) ==
    [w |-> w, s |-> [s EXCEPT !.pc = "event", !.r = Some(w.results[s.id])]]

\* return ResultOut(ticket_id=r.ticket_id, ...)
ResultReturn(w, s) ==
    [w |-> w,
     s |-> [s EXCEPT !.pc = "done", !.code = 200,
                     !.rbody = Some(w.results[s.id])]]

CreateResultStep(w, s) ==
    CASE s.pc = "start" -> ResultGet(w, s)
      [] s.pc = "lazy" -> ResultBuild(w, s)
      [] s.pc = "commit" -> ResultCommit(w, s)
      [] s.pc = "refresh" ->
            LET n == ResultRefresh(w, s) IN
            StepEvent(n.w, n.s, "result_added", n.s.rid, n.s.prev, Some("resolved"))
      [] s.pc = "event_commit" -> StepEventCommit(w, s)
      [] s.pc = "return" -> ResultReturn(w, s)

---------------------------------------------------------------------------
\* create_ticket

\* ImageCountOk with a slip: the upper limit is not checked.
ImageCountLax(n) == MinImages <= n

\* if not 1 <= len(images) <= 5
ImageCountOk(n) == MinImages <= n /\ n <= MaxImages

\* The length check, uuid4(), and the upload loop; failAt is the image whose
\* upload raises (0: none does). Images are taken to have distinct names.
SubmitUpload(w, s) ==
    IF ~ImageCountOk(s.nimg)
    THEN [w |-> w, s |-> Fail(s, 400, "Must upload 1-5 images")]
    ELSE LET id == w.nextId
             upto == IF s.failAt = 0 THEN s.nimg ELSE s.failAt - 1
             w1 == [w EXCEPT !.nextId = id + 1,
                             !.blobs = w.blobs \cup {<<id, i>> : i \in 1..upto}]
         IN  IF s.failAt # 0
             THEN [w |-> w1, s |-> Fail([s EXCEPT !.id = id], 500, "Upload failed")]
             ELSE [w |-> w1, s |-> [s EXCEPT !.pc = "commit", !.id = id]]

\* NewTicket with a slip: the claim timestamp is stamped at creation.
NewTicketStamped(user, nimg, at) ==
    [user_id |-> user, status |-> "submitted", images |-> nimg,
     assigned_reviewer_id |-> None, claimed_at |-> Some(at),
     created_at |-> at, updated_at |-> at]

\* t = Ticket(id=ticket_id, user_id=user_id, ..., status="submitted", ...)
NewTicket(user, nimg, at) ==
    [user_id |-> user, status |-> "submitted", images |-> nimg,
     assigned_reviewer_id |-> None, claimed_at |-> None,
     created_at |-> at, updated_at |-> at]

\* now = utcnow(); t = Ticket(...); db.add(t); db.commit()
SubmitCommit(w, s) ==
    LET row == NewTicket(s.user, s.nimg, w.now + 1)
    IN  [w |-> [w EXCEPT !.now = w.now + 1,
                         !.tickets = (s.id :> row) @@ w.tickets],
         s |-> [s EXCEPT !.pc = "refresh"]]

CreateTicketStep(w, s) ==
    CASE s.pc = "start" -> SubmitUpload(w, s)
      [] s.pc = "commit" -> SubmitCommit(w, s)
      [] s.pc = "refresh" ->
            LET n == StepRefresh(w, s) IN
            StepEvent(n.w, n.s, "created", n.s.user, None, Some("submitted"))
      [] s.pc = "event_commit" -> StepEventCommit(w, s)
      [] s.pc = "return" -> StepReturnTicket(w, s)

---------------------------------------------------------------------------
\* get_ticket, get_result, list_events

\* get_ticket: db.get, then the TicketOut built from the row loaded.
GetTicketStep(w, s) ==
    IF ~Exists(w, s.id)
    THEN [w |-> w, s |-> Fail(s, 404, "Ticket not found")]
    ELSE [w |-> w,
          s |-> [s EXCEPT !.pc = "done", !.code = 200,
                          !.tbody = Some(w.tickets[s.id])]]

\* GetResultLoad with a slip: the missing Result is reported with the
\* detail of the missing ticket.
GetResultLoadSameDetail(w, s) ==
    IF ~HasResult(w, s.id)
    THEN [w |-> w, s |-> Fail(s, 404, "Ticket not found")]
    ELSE [w |-> w,
          s |-> [s EXCEPT !.pc = "done", !.code = 200,
                          !.rbody = Some(w.results[s.id])]]

\* get_result: if t.result is None (the relationship is loaded here)
GetResultLoad(w, s) ==
    IF ~HasResult(w, s.id)
    THEN [w |-> w, s |-> Fail(s, 404, "Result not found")]
    ELSE [w |-> w,
          s |-> [s EXCEPT !.pc = "done", !.code = 200,
                          !.rbody = Some(w.results[s.id])]]

GetResultStep(w, s) ==
    CASE s.pc = "start" ->
            IF ~Exists(w, s.id)
            THEN [w |-> w, s |-> Fail(s, 404, "Ticket not found")]
            ELSE [w |-> w, s |-> [s EXCEPT !.pc = "lazy"]]
      [] s.pc = "lazy" -> GetResultLoad(w, s)

\* The same order with a slip: .desc() where .asc() is meant.
EventOrderDesc(a, b) == a.at >= b.at

\* order_by(TicketEvent.at.asc()): a comes no later than b. Rows with equal
\* timestamps keep the order of their ids.
EventOrder(a, b) == a.at <= b.at

\* e put in its place in the ordered rows.
InsertEvent(e, rows) ==
    LET k == Cardinality({i \in 1..Len(rows) : EventOrder(rows[i], e)})
    IN  SubSeq(rows, 1, k) \o <<e>> \o SubSeq(rows, k + 1, Len(rows))

RECURSIVE OrderEvents(_)
OrderEvents(rows) ==
    IF rows = <<>> THEN <<>>
    ELSE InsertEvent(rows[Len(rows)], OrderEvents(SubSeq(rows, 1, Len(rows) - 1)))

\* db.query(TicketEvent).filter(ticket_id == id).order_by(at.asc()).all()
\* on the rows evs of ticket_events.
EventsQuery(evs, id) ==
    OrderEvents(SelectSeq(evs, LAMBDA e : e.ticket_id = id))

ListEventsStep(w, s) ==
    CASE s.pc = "start" ->
            IF ~Exists(w, s.id)
            THEN [w |-> w, s |-> Fail(s, 404, "Ticket not found")]
            ELSE [w |-> w, s |-> [s EXCEPT !.pc = "query"]]
      [] s.pc = "query" ->
            [w |-> w,
             s |-> [s EXCEPT !.pc = "done", !.code = 200,
                             !.ebody = Some(EventsQuery(w.events, s.id))]]

---------------------------------------------------------------------------
\* Running a request.

Step(w, s) ==
    CASE s.op = "submit" -> CreateTicketStep(w, s)
      [] s.op = "claim" -> ClaimStep(w, s)
      [] s.op = "unclaim" -> UnclaimStep(w, s)
      [] s.op = "status" -> UpdateStatusStep(w, s)
      [] s.op = "result" -> CreateResultStep(w, s)
      [] s.op = "get" -> GetTicketStep(w, s)
      [] s.op = "get_result" -> GetResultStep(w, s)
      [] s.op = "events" -> ListEventsStep(w, s)

\* A handler run to its response with no other request in between.
RECURSIVE Run(_, _)
Run(w, s) ==
    IF s.pc = "done" THEN [w |-> w, s |-> s]
    ELSE LET n == Step(w, s) IN Run(n.w, n.s)

\* The requests.
SubmitReq(n, failAt, user) ==
    [Idle EXCEPT !.pc = "start", !.op = "submit", !.nimg = n,
                 !.failAt = failAt, !.user = user]

ClaimReq(id, reviewer) ==
    [Idle EXCEPT !.pc = "start", !.op = "claim", !.id = id, !.rid = Some(reviewer)]

UnclaimReq(id, reviewer) ==
    [Idle EXCEPT !.pc = "start", !.op = "unclaim", !.id = id, !.rid = Some(reviewer)]

StatusReq(id, to) ==
    [Idle EXCEPT !.pc = "start", !.op = "status", !.id = id, !.to = to]

ResultReq(id, verdict, rationale, reviewer) ==
    [Idle EXCEPT !.pc = "start", !.op = "result", !.id = id,
                 !.verdict = verdict, !.rationale = rationale, !.rid = reviewer]

\* The read requests: op is get, get_result or events.
ReadReq(op, id) == [Idle EXCEPT !.pc = "start", !.op = op, !.id = id]

InFlight(k) == reqs[k].pc \notin {"idle", "done"}

SetWorld(w) ==
    /\ tickets' = w.tickets
    /\ results' = w.results
    /\ events' = w.events
    /\ blobs' = w.blobs
    /\ now' = w.now
    /\ nextId' = w.nextId

Init ==
    /\ tickets = EmptyWorld.tickets
    /\ results = EmptyWorld.results
    /\ events = EmptyWorld.events
    /\ blobs = EmptyWorld.blobs
    /\ now = EmptyWorld.now
    /\ nextId = EmptyWorld.nextId
    /\ reqs = [k \in Workers |-> Idle]
    /\ snap = EmptyWorld
    /\ batch = {}
    /\ races = 0

---------------------------------------------------------------------------
\* Spec: one request at a time, each handler one action.

\* get_db: a request is served in a session of its own, opened once the
\* session before it is closed.
Ready == reqs[1].pc = "idle" /\ Len(events) < MaxEvents

\* The handler of request s0, run to its response.
Serve(s0) ==
    /\ LET r == Run(World, s0) IN
          /\ SetWorld(r.w)
          /\ reqs' = [reqs EXCEPT ![1] = r.s]
    /\ UNCHANGED <<snap, batch, races>>

Submit(n, failAt, user) ==
    /\ Ready
    /\ nextId <= MaxTickets
    /\ Serve(SubmitReq(n, failAt, user))

Claim(id, reviewer) ==
    /\ Ready
    /\ Serve(ClaimReq(id, reviewer))

Unclaim(id, reviewer) ==
    /\ Ready
    /\ Serve(UnclaimReq(id, reviewer))

UpdateStatus(id, to) ==
    /\ Ready
    /\ Serve(StatusReq(id, to))

RecordResult(id, verdict, rationale, reviewer) ==
    /\ Ready
    /\ Serve(ResultReq(id, verdict, rationale, reviewer))

Get(id) ==
    /\ Ready
    /\ Serve(ReadReq("get", id))

GetResult(id) ==
    /\ Ready
    /\ Serve(ReadReq("get_result", id))

ListByTicket(id) ==
    /\ Ready
    /\ Serve(ReadReq("events", id))

\* get_db: finally db.close(), once the response is sent.
Close(k) ==
    /\ reqs[k].pc = "done"
    /\ reqs' = [reqs EXCEPT ![k] = Idle]
    /\ UNCHANGED <<tickets, results, events, blobs, now, nextId, snap, batch, races>>

Next ==
    \/ \E f \in SubmitInputs : Submit(f.nimg, f.failAt, f.user)
    \/ \E id \in TicketIds, reviewer \in Reviewers : Claim(id, reviewer)
    \/ \E id \in TicketIds, reviewer \in Reviewers : Unclaim(id, reviewer)
    \/ \E id \in TicketIds, to \in Statuses : UpdateStatus(id, to)
    \/ \E id \in TicketIds, p \in ResultInputs :
            RecordResult(id, p.verdict, p.rationale, p.reviewer)
    \/ \E id \in TicketIds : Get(id)
    \/ \E id \in TicketIds : GetResult(id)
    \/ \E id \in TicketIds : ListByTicket(id)
    \/ Close(1)

Spec == Init /\ [][Next]_vars

---------------------------------------------------------------------------
\* SpecConc: the workers serve requests at the same time; every step of a
\* handler is an action of its own. Requests are admitted in batches: a
\* batch opens when every session is closed, and a worker serves one request
\* per batch. The workers being alike, they take the requests of a batch in
\* turn. A request joins the requests in flight when it addresses the ticket
\* they address. The requests interleaved are those that write; get_ticket,
\* get_result and list_events write nothing and are served in Spec.

\* The batch a request s0 of worker k joins.
Admit(k, s0) ==
    /\ reqs[k].pc = "idle"
    /\ Len(events) + Cardinality({j \in Workers : InFlight(j)}) < MaxEvents
    /\ IF \A j \in Workers : reqs[j].pc = "idle"
       THEN k = 1 /\ snap' = World /\ batch' = {k} /\ races' = races
       ELSE /\ k = Cardinality(batch) + 1
            /\ \E j \in Workers : InFlight(j)
            /\ s0.op # "submit"
            /\ \A j \in Workers : InFlight(j) => reqs[j].id = s0.id
            /\ races < MaxRaces \/ Cardinality(batch) > 1
            /\ snap' = snap
            /\ batch' = batch \cup {k}
            /\ races' = IF Cardinality(batch) = 1 THEN races + 1 ELSE races

\* The handler of worker k takes a step from session s.
Take(k, s) ==
    LET n == Step(World, s) IN
        /\ SetWorld(n.w)
        /\ reqs' = [reqs EXCEPT ![k] = n.s]

\* The handler of worker k, serving a request of operation op, is at work.
AtWork(k, op) == InFlight(k) /\ reqs[k].op = op

\* A request arrives and its handler takes its first step.
BeginSubmit(k, f) ==
    /\ nextId <= MaxTickets
    /\ Admit(k, SubmitReq(f.nimg, f.failAt, f.user))
    /\ Take(k, SubmitReq(f.nimg, f.failAt, f.user))

BeginClaim(k, id, reviewer) ==
    /\ Admit(k, ClaimReq(id, reviewer))
    /\ Take(k, ClaimReq(id, reviewer))

BeginUnclaim(k, id, reviewer) ==
    /\ Admit(k, UnclaimReq(id, reviewer))
    /\ Take(k, UnclaimReq(id, reviewer))

BeginUpdateStatus(k, id, to) ==
    /\ Admit(k, StatusReq(id, to))
    /\ Take(k, StatusReq(id, to))

BeginRecordResult(k, id, p) ==
    /\ Admit(k, ResultReq(id, p.verdict, p.rationale, p.reviewer))
    /\ Take(k, ResultReq(id, p.verdict, p.rationale, p.reviewer))

\* The handler of worker k takes its next step.
ContinueSubmit(k) ==
    /\ AtWork(k, "submit")
    /\ Take(k, reqs[k])
    /\ UNCHANGED <<snap, batch, races>>

ContinueClaim(k) ==
    /\ AtWork(k, "claim")
    /\ Take(k, reqs[k])
    /\ UNCHANGED <<snap, batch, races>>

ContinueUnclaim(k) ==
    /\ AtWork(k, "unclaim")
    /\ Take(k, reqs[k])
    /\ UNCHANGED <<snap, batch, races>>

ContinueUpdateStatus(k) ==
    /\ AtWork(k, "status")
    /\ Take(k, reqs[k])
    /\ UNCHANGED <<snap, batch, races>>

ContinueRecordResult(k) ==
    /\ AtWork(k, "result")
    /\ Take(k, reqs[k])
    /\ UNCHANGED <<snap, batch, races>>

\* The forms submitted while requests interleave: as SubmitInputs, with one
\* form only that is accepted and stored.
ConcSubmitInputs == {f \in SubmitInputs : f.nimg # MaxImages \/ f.failAt # 0}

NextConc ==
    \/ \E k \in Workers, f \in ConcSubmitInputs : BeginSubmit(k, f)
    \/ \E k \in Workers, id \in TicketIds, reviewer \in Reviewers :
            BeginClaim(k, id, reviewer)
    \/ \E k \in Workers, id \in TicketIds, reviewer \in Reviewers :
            BeginUnclaim(k, id, reviewer)
    \/ \E k \in Workers, id \in TicketIds, to \in Statuses :
            BeginUpdateStatus(k, id, to)
    \/ \E k \in Workers, id \in TicketIds, p \in ResultInputs :
            BeginRecordResult(k, id, p)
    \/ \E k \in Workers : ContinueSubmit(k)
    \/ \E k \in Workers : ContinueClaim(k)
    \/ \E k \in Workers : ContinueUnclaim(k)
    \/ \E k \in Workers : ContinueUpdateStatus(k)
    \/ \E k \in Workers : ContinueRecordResult(k)
    \/ \E k \in Workers : Close(k)

SpecConc == Init /\ [][NextConc]_vars

---------------------------------------------------------------------------
\* What the claims are stated with.

\* In Spec, a step that serves a request: R is the request with its response.
Served == reqs[1].pc = "idle" /\ reqs'[1].pc = "done"

R == reqs'[1]

DbUnchanged == tickets' = tickets /\ results' = results /\ events' = events

\* The transition table as the specification gives it.
SpecTable(from) ==
    CASE from = "submitted" -> {"in_review", "rejected", "need_more_info"}
      [] from = "in_review" -> {"resolved", "rejected", "need_more_info"}
      [] from = "need_more_info" -> {"in_review", "rejected"}
      [] OTHER -> {}

Terminal == {"resolved", "rejected"}

EventsOf(id) == SelectSeq(events, LAMBDA e : e.ticket_id = id)

Last(seq) == seq[Len(seq)]

IsPrefix(a, b) == Len(a) <= Len(b) /\ SubSeq(b, 1, Len(a)) = a

\* A database with its timestamps left out (whether claimed_at is set kept).
EraseRow(row) ==
    [user_id |-> row.user_id, status |-> row.status,
     assigned_reviewer_id |-> row.assigned_reviewer_id,
     claimed |-> row.claimed_at # None]

EraseResult(r) ==
    [verdict |-> r.verdict, rationale |-> r.rationale, reviewer_id |-> r.reviewer_id]

EraseEvent(e) ==
    [ticket_id |-> e.ticket_id, kind |-> e.kind, actor_id |-> e.actor_id,
     from_status |-> e.from_status, to_status |-> e.to_status]

EraseWorld(w) ==
    [tickets |-> [id \in DOMAIN w.tickets |-> EraseRow(w.tickets[id])],
     results |-> [id \in DOMAIN w.results |-> EraseResult(w.results[id])],
     events |-> [i \in 1..Len(w.events) |-> EraseEvent(w.events[i])],
     blobs |-> w.blobs]

EraseResponse(s) ==
    [code |-> s.code, detail |-> s.detail,
     tbody |-> IF s.tbody = None THEN None ELSE Some(EraseRow(s.tbody[1])),
     rbody |-> IF s.rbody = None THEN None ELSE Some(EraseResult(s.rbody[1]))]

\* The request a session serves, as it arrived.
Restart(s) ==
    [Idle EXCEPT !.pc = "start", !.op = s.op,
                 !.id = IF s.op = "submit" THEN 0 ELSE s.id,
                 !.rid = s.rid, !.to = s.to, !.verdict = s.verdict,
                 !.rationale = s.rationale, !.user = s.user, !.nimg = s.nimg,
                 !.failAt = s.failAt]

\* The requests of the workers order[i], order[i+1], ... served one after
\* the other from database w: the database left and the responses.
RECURSIVE Replay(_, _, _, _)
Replay(w, order, i, n) ==
    IF i > n THEN [w |-> w, out |-> <<>>]
    ELSE LET r == Run(w, Restart(reqs[order[i]]))
             rest == Replay(r.w, order, i + 1, n)
         IN  [w |-> rest.w, out |-> (order[i] :> EraseResponse(r.s)) @@ rest.out]

Orders(S) ==
    {o \in [1..Cardinality(S) -> S] : \A i, j \in 1..Cardinality(S) : o[i] = o[j] => i = j}

\* The operations that change an existing ticket.
Mutating == {"claim", "unclaim", "status", "result"}

\* The operations that address a ticket by its ID.
ByTicket == Mutating \cup {"get", "get_result", "events"}

BatchDone == batch # {} /\ \A k \in batch : reqs[k].pc = "done"

---------------------------------------------------------------------------
\* C1: two concurrent Claim requests on the same unassigned ticket with
\* different reviewer IDs never both succeed. Stated for non-empty reviewer
\* IDs; the steps of claim_ticket let both requests read the ticket before
\* either writes it, so the statement is violated under SpecConc.
C1_ConcurrentClaimsExclusive ==
    \A a, b \in batch :
        ( /\ a # b
          /\ reqs[a].pc = "done" /\ reqs[b].pc = "done"
          /\ reqs[a].op = "claim" /\ reqs[b].op = "claim"
          /\ reqs[a].id = reqs[b].id
          /\ reqs[a].rid # reqs[b].rid
          /\ Truthy(reqs[a].rid) /\ Truthy(reqs[b].rid)
          /\ reqs[a].id \in DOMAIN snap.tickets
          /\ snap.tickets[reqs[a].id].assigned_reviewer_id = None )
        => ~(reqs[a].code = 200 /\ reqs[b].code = 200)

\* C2: with every operation atomic, each change of a ticket's status is an
\* edge of the transition table, Claim's move to in_review from submitted or
\* need_more_info, or RecordResult's move to resolved from a non-terminal
\* status; a resolved or rejected ticket never changes status. create_result
\* resolves a rejected ticket, so the statement is violated.
C2_StatusChangesAreLegal ==
    [][\A id \in DOMAIN tickets :
          LET from == tickets[id].status
              to == tickets'[id].status
          IN  from # to =>
                /\ from \notin Terminal
                /\ \/ to \in SpecTable(from)
                   \/ /\ R.op = "claim"
                      /\ from \in {"submitted", "need_more_info"}
                      /\ to = "in_review"
                   \/ R.op = "result" /\ to = "resolved"]_vars

\* C3: UpdateStatus on an existing ticket succeeds exactly when to_status is
\* in the table's set for the current status, and otherwise fails with
\* IllegalTransition (400) and changes nothing; so self-transitions, requests
\* on resolved or rejected tickets, and submitted -> resolved all fail.
C3_UpdateStatusFollowsTable ==
    [][(Served /\ R.op = "status" /\ R.id \in DOMAIN tickets) =>
          LET from == tickets[R.id].status IN
          /\ (R.code = 200) <=> (R.to \in SpecTable(from))
          /\ R.code = 200 => tickets'[R.id].status = R.to
          /\ R.code # 200 =>
                R.code = 400 /\ R.detail = "Illegal transition" /\ DbUnchanged
          /\ (R.to = from \/ from \in Terminal) => R.code = 400
          /\ (from = "submitted" /\ R.to = "resolved") => R.code = 400]_vars

\* Witness of C3: UpdateStatus(resolved) on a submitted ticket was refused.
C3_Witness ==
    /\ reqs[1].pc = "done" /\ reqs[1].op = "status" /\ reqs[1].code = 400
    /\ reqs[1].to = "resolved"
    /\ reqs[1].id \in DOMAIN tickets
    /\ tickets[reqs[1].id].status = "submitted"

\* C4: once a ticket has a Result, the Result is never changed or removed,
\* and every later RecordResult on the ticket fails with AlreadyExists (400)
\* and changes neither the Result, the ticket nor the event log.
C4_OneResultPerTicket ==
    [][/\ \A id \in DOMAIN results :
             id \in DOMAIN results' /\ results'[id] = results[id]
       /\ (Served /\ R.op = "result" /\ R.id \in DOMAIN results) =>
             /\ R.code = 400
             /\ R.detail = "Result already exists for this ticket"
             /\ DbUnchanged]_vars

\* Witness of C4: a second RecordResult, with another verdict, was refused.
C4_Witness ==
    /\ reqs[1].pc = "done" /\ reqs[1].op = "result" /\ reqs[1].code = 400
    /\ reqs[1].id \in DOMAIN results
    /\ results[reqs[1].id].verdict # reqs[1].verdict

\* C5: in every reachable state, requests interleaving included, a ticket's
\* assigned_reviewer_id is set iff its claimed_at is set. A re-Claim by the
\* assigned reviewer that read the ticket before that reviewer's Unclaim
\* committed writes claimed_at alone, so the statement is violated under
\* SpecConc.
C5_ClaimFieldsAgree ==
    \A id \in DOMAIN tickets :
        (tickets[id].assigned_reviewer_id # None) <=> (tickets[id].claimed_at # None)

\* C6: in no reachable state is a ticket, a status, a claim assignment or a
\* Result committed while the event recording it is absent from the ticket's
\* event log. The handlers commit the event in a transaction of its own after
\* the ticket's, so the statement is violated under SpecConc.
C6_CommittedWithEvent ==
    \A id \in DOMAIN tickets :
        LET log == EventsOf(id)
            moves == SelectSeq(log, LAMBDA e : e.to_status # None)
            claims == SelectSeq(log, LAMBDA e : e.kind \in {"claimed", "unclaimed"})
        IN  /\ Len(log) > 0 /\ log[1].kind = "created"
            /\ Len(moves) > 0 /\ Last(moves).to_status = Some(tickets[id].status)
            /\ tickets[id].assigned_reviewer_id # None =>
                  /\ Len(claims) > 0
                  /\ Last(claims).kind = "claimed"
                  /\ Last(claims).actor_id = tickets[id].assigned_reviewer_id
            /\ id \in DOMAIN results =>
                  \E i \in 1..Len(log) : log[i].kind = "result_added"

\* C7: the responses and the database left by Claim, Unclaim, UpdateStatus
\* and RecordResult requests served at the same time on one ticket equal,
\* timestamps aside, those of the same requests served one after the other
\* in some order. The handlers read, check and write in separate steps, so
\* the statement is violated under SpecConc.
C7_Serializable ==
    (BatchDone /\ \A k \in batch : reqs[k].op \in Mutating) =>
        \E o \in Orders(batch) :
            LET seq == Replay(snap, o, 1, Cardinality(batch)) IN
            /\ EraseWorld(seq.w) = EraseWorld(World)
            /\ \A k \in batch : seq.out[k] = EraseResponse(reqs[k])

\* C8: Claim on a ticket assigned to a different reviewer fails with Conflict
\* (409) and changes nothing. A ticket claimed with the reviewer ID "" counts
\* as unassigned in claim_ticket's check, so the statement is violated.
C8_ClaimConflict ==
    [][(/\ Served /\ R.op = "claim" /\ R.id \in DOMAIN tickets
        /\ tickets[R.id].assigned_reviewer_id # None
        /\ tickets[R.id].assigned_reviewer_id # R.rid) =>
          /\ R.code = 409
          /\ DbUnchanged]_vars

\* C9: RecordResult on an existing ticket without a Result succeeds from
\* every status, stores the Result, sets the status to resolved, and appends
\* exactly one result_added event from the previous status to resolved.
C9_RecordResultForcesResolved ==
    [][(Served /\ R.op = "result" /\ R.id \in DOMAIN tickets
        /\ R.id \notin DOMAIN results) =>
          /\ R.code = 200
          /\ R.id \in DOMAIN results'
          /\ results'[R.id].ticket_id = R.id
          /\ results'[R.id].verdict = R.verdict
          /\ results'[R.id].reviewer_id = R.rid
          /\ results'[R.id].rationale =
                (IF R.rationale = None THEN "" ELSE R.rationale[1])
          /\ R.rbody = Some(results'[R.id])
          /\ tickets'[R.id].status = "resolved"
          /\ Len(events') = Len(events) + 1
          /\ SubSeq(events', 1, Len(events)) = events
          /\ LET e == Last(events') IN
                /\ e.ticket_id = R.id
                /\ e.kind = "result_added"
                /\ e.actor_id = R.rid
                /\ e.from_status = Some(tickets[R.id].status)
                /\ e.to_status = Some("resolved")]_vars

\* Witness of C9: a Result was recorded on a need_more_info ticket.
C9_Witness ==
    /\ reqs[1].pc = "done" /\ reqs[1].op = "result" /\ reqs[1].code = 200
    /\ tickets[reqs[1].id].status = "resolved"
    /\ Last(events).kind = "result_added"
    /\ Last(events).from_status = Some("need_more_info")

\* C10: Unclaim on an existing ticket fails with InvalidState (400) when the
\* ticket has no assigned reviewer, fails with Forbidden (403) when it is
\* assigned to another reviewer, changes nothing in both cases, and succeeds
\* only for the assigned reviewer. A ticket assigned to the reviewer ID ""
\* (see C8) is reported as not claimed, so the statement is violated.
C10_UnclaimErrors ==
    [][(Served /\ R.op = "unclaim" /\ R.id \in DOMAIN tickets) =>
          LET assigned == tickets[R.id].assigned_reviewer_id IN
          /\ assigned = None =>
                R.code = 400 /\ R.detail = "Ticket is not claimed"
          /\ (assigned # None /\ assigned # R.rid) => R.code = 403
          /\ R.code # 200 => DbUnchanged
          /\ R.code = 200 => assigned = R.rid]_vars

\* C11: the event log is append-only: no operation, successful or failed,
\* modifies or removes an event, the number of events of a ticket never
\* decreases, and the history ListByTicket returns (the ticket's events in
\* ascending order of their timestamps) in a state is a prefix of the history
\* it returns in every later state. Stated for requests served one after
\* the other.
C11_EventLogAppendOnly ==
    [][/\ Len(events') >= Len(events)
       /\ SubSeq(events', 1, Len(events)) = events
       /\ \A id \in TicketIds :
             /\ Len(EventsQuery(events', id)) >= Len(EventsQuery(events, id))
             /\ IsPrefix(EventsQuery(events, id), EventsQuery(events', id))
       /\ (Served /\ R.op = "events" /\ R.id \in DOMAIN tickets) =>
             /\ R.code = 200
             /\ R.ebody = Some(EventsQuery(events, R.id))
             /\ DbUnchanged]_vars

\* Witness of C11: ListByTicket returned a history of three events, the
\* last of them the latest.
C11_Witness ==
    /\ reqs[1].pc = "done" /\ reqs[1].op = "events" /\ reqs[1].code = 200
    /\ Len(reqs[1].ebody[1]) = 3
    /\ reqs[1].ebody[1][1].kind = "created"
    /\ reqs[1].ebody[1][3].at > reqs[1].ebody[1][2].at

\* C12: a successful Submit (1 to 5 images, every upload succeeding) creates
\* a ticket with a fresh ID, status submitted, no assigned reviewer, no
\* claimed_at, created_at = updated_at and no Result, whose event log is
\* exactly one created event with to_status submitted and the submitter as
\* actor; no other ticket and no Result is changed.
C12_SubmitCreatesTicket ==
    [][(Served /\ R.op = "submit") =>
          /\ (R.nimg \in 1..5 /\ R.failAt = 0) => R.code = 200
          /\ R.code = 200 =>
                /\ R.nimg \in 1..5
                /\ R.id \notin DOMAIN tickets
                /\ DOMAIN tickets' = DOMAIN tickets \cup {R.id}
                /\ \A id \in DOMAIN tickets : tickets'[id] = tickets[id]
                /\ LET row == tickets'[R.id] IN
                      /\ row.status = "submitted"
                      /\ row.user_id = R.user
                      /\ row.images = R.nimg
                      /\ row.assigned_reviewer_id = None
                      /\ row.claimed_at = None
                      /\ row.created_at = row.updated_at
                      /\ R.tbody = Some(row)
                /\ results' = results
                /\ R.id \notin DOMAIN results'
                /\ Len(events') = Len(events) + 1
                /\ SubSeq(events', 1, Len(events)) = events
                /\ Len(EventsQuery(events', R.id)) = 1
                /\ LET e == EventsQuery(events', R.id)[1] IN
                      /\ e.kind = "created"
                      /\ e.actor_id = R.user
                      /\ e.from_status = None
                      /\ e.to_status = Some("submitted")]_vars

\* Witness of C12: a second ticket was submitted, by kev with five images,
\* while the first ticket was no longer in status submitted.
C12_Witness ==
    /\ reqs[1].pc = "done" /\ reqs[1].op = "submit" /\ reqs[1].code = 200
    /\ reqs[1].id = 2 /\ reqs[1].user = Some("kev") /\ reqs[1].nimg = 5
    /\ 1 \in DOMAIN tickets /\ tickets[1].status # "submitted"
    /\ tickets[2].status = "submitted"

\* C13: a failed Submit persists no ticket row and no event: with an image
\* count outside [1,5] it fails with ValidationError (400) before any blob is
\* uploaded; when the upload of an image fails it fails with StorageError
\* (500), the blobs uploaded before it stay, and no ticket row is written. The
\* tickets, the Results and the event logs are unchanged.
C13_FailedSubmitPersistsNothing ==
    [][(Served /\ R.op = "submit") =>
          /\ R.nimg \notin 1..5 =>
                /\ R.code = 400 /\ R.detail = "Must upload 1-5 images"
                /\ blobs' = blobs
          /\ (R.nimg \in 1..5 /\ R.failAt # 0) =>
                /\ R.code = 500 /\ R.detail = "Upload failed"
                /\ R.id \notin DOMAIN tickets'
                /\ blobs' = blobs \cup {<<R.id, i>> : i \in 1..(R.failAt - 1)}
          /\ R.code # 200 => DbUnchanged]_vars

\* Witness of C13: the third upload of a Submit failed; the first two blobs
\* are stored under an ID that no ticket has.
C13_Witness ==
    /\ reqs[1].pc = "done" /\ reqs[1].op = "submit" /\ reqs[1].code = 500
    /\ reqs[1].failAt = 3
    /\ <<reqs[1].id, 2>> \in blobs /\ <<reqs[1].id, 3>> \notin blobs
    /\ reqs[1].id \notin DOMAIN tickets

\* C14: Get, Claim, Unclaim, UpdateStatus, RecordResult, GetResult and
\* ListByTicket on a ticket ID that no Submit has created fail with NotFound
\* (404 "Ticket not found") whatever else the request carries, and create no
\* ticket, Result or event; GetResult on an existing ticket without a Result
\* fails with another NotFound (404 "Result not found"), and the detail
\* "Ticket not found" is given for absent tickets only.
C14_NotFound ==
    [][(Served /\ R.op \in ByTicket) =>
          /\ R.id \notin DOMAIN tickets =>
                /\ R.code = 404 /\ R.detail = "Ticket not found"
                /\ DbUnchanged /\ blobs' = blobs
          /\ (R.op = "get_result" /\ R.id \in DOMAIN tickets
              /\ R.id \notin DOMAIN results) =>
                /\ R.code = 404 /\ R.detail = "Result not found"
                /\ DbUnchanged
          /\ (R.code = 404 /\ R.detail = "Ticket not found") =>
                R.id \notin DOMAIN tickets]_vars

\* Witness of C14: GetResult on a ticket that exists and has no Result was
\* answered "Result not found", while another ticket ID is still unused.
C14_Witness ==
    /\ reqs[1].pc = "done" /\ reqs[1].op = "get_result" /\ reqs[1].code = 404
    /\ reqs[1].detail = "Result not found"
    /\ reqs[1].id \in DOMAIN tickets
    /\ \E id \in TicketIds : id \notin DOMAIN tickets

\* C15: a successful Claim(ticket, reviewer) sets assigned_reviewer_id to the
\* reviewer and sets claimed_at; the status becomes in_review exactly when it
\* was submitted or need_more_info and is otherwise kept; exactly one claimed
\* event is appended, from the status before the call to the status after
\* it, with the reviewer as actor.
C15_ClaimEffects ==
    [][(Served /\ R.op = "claim" /\ R.code = 200) =>
          LET before == tickets[R.id]
              after == tickets'[R.id]
          IN  /\ after.assigned_reviewer_id = R.rid
              /\ after.claimed_at # None
              /\ before.status \in {"submitted", "need_more_info"} =>
                    after.status = "in_review"
              /\ before.status \in {"in_review", "resolved", "rejected"} =>
                    after.status = before.status
              /\ after.user_id = before.user_id
              /\ after.images = before.images
              /\ after.created_at = before.created_at
              /\ R.tbody = Some(after)
              /\ \A id \in DOMAIN tickets \ {R.id} : tickets'[id] = tickets[id]
              /\ results' = results
              /\ Len(events') = Len(events) + 1
              /\ SubSeq(events', 1, Len(events)) = events
              /\ LET e == Last(events') IN
                    /\ e.ticket_id = R.id
                    /\ e.kind = "claimed"
                    /\ e.actor_id = R.rid
                    /\ e.from_status = Some(before.status)
                    /\ e.to_status = Some(after.status)]_vars

\* Witness of C15: a need_more_info ticket was claimed by rev_002 and is
\* in_review.
C15_Witness ==
    /\ reqs[1].pc = "done" /\ reqs[1].op = "claim" /\ reqs[1].code = 200
    /\ reqs[1].rid = Some("rev_002")
    /\ tickets[reqs[1].id].status = "in_review"
    /\ Last(events).kind = "claimed"
    /\ Last(events).from_status = Some("need_more_info")

\* C16: Claim by the reviewer who holds the ticket succeeds, leaves
\* assigned_reviewer_id and (for a ticket in in_review, resolved or rejected)
\* the status unchanged and appends one more claimed event; Claim(t, r)
\* applied again after a successful Claim(t, r) leaves the same assignment
\* and status and one event more.
C16_ReclaimIdempotent ==
    [][(Served /\ R.op = "claim" /\ R.id \in DOMAIN tickets) =>
          /\ tickets[R.id].assigned_reviewer_id = R.rid =>
                /\ R.code = 200
                /\ tickets'[R.id].assigned_reviewer_id = R.rid
                /\ tickets[R.id].status \in {"in_review", "resolved", "rejected"} =>
                      tickets'[R.id].status = tickets[R.id].status
                /\ Len(events') = Len(events) + 1
                /\ Last(events').kind = "claimed"
          /\ R.code = 200 =>
                LET again == Run(World', ClaimReq(R.id, R.rid[1])) IN
                /\ again.s.code = 200
                /\ again.w.tickets[R.id].assigned_reviewer_id =
                      tickets'[R.id].assigned_reviewer_id
                /\ again.w.tickets[R.id].status = tickets'[R.id].status
                /\ Len(again.w.events) = Len(events') + 1
                /\ Last(again.w.events).kind = "claimed"
                /\ Last(again.w.events).actor_id = R.rid]_vars

\* Witness of C16: rev_001 claimed a ticket it already held; the log ends
\* with two claimed events of rev_001 on the ticket.
C16_Witness ==
    /\ reqs[1].pc = "done" /\ reqs[1].op = "claim" /\ reqs[1].code = 200
    /\ reqs[1].rid = Some("rev_001")
    /\ Len(events) >= 3
    /\ \A i \in {Len(events) - 1, Len(events)} :
          /\ events[i].kind = "claimed"
          /\ events[i].ticket_id = reqs[1].id
          /\ events[i].actor_id = Some("rev_001")
    /\ tickets[reqs[1].id].assigned_reviewer_id = Some("rev_001")

\* C17: a successful Unclaim clears assigned_reviewer_id and claimed_at,
\* leaves the ticket's status as it was, leaves every Result unchanged, and
\* appends exactly one unclaimed event with the reviewer as actor and neither
\* from_status nor to_status.
C17_UnclaimEffects ==
    [][(Served /\ R.op = "unclaim" /\ R.code = 200) =>
          LET before == tickets[R.id]
              after == tickets'[R.id]
          IN  /\ after.assigned_reviewer_id = None
              /\ after.claimed_at = None
              /\ after.status = before.status
              /\ after.user_id = before.user_id
              /\ after.images = before.images
              /\ after.created_at = before.created_at
              /\ R.tbody = Some(after)
              /\ \A id \in DOMAIN tickets \ {R.id} : tickets'[id] = tickets[id]
              /\ results' = results
              /\ Len(events') = Len(events) + 1
              /\ SubSeq(events', 1, Len(events)) = events
              /\ LET e == Last(events') IN
                    /\ e.ticket_id = R.id
                    /\ e.kind = "unclaimed"
                    /\ e.actor_id = R.rid
                    /\ e.from_status = None
                    /\ e.to_status = None]_vars

\* Witness of C17: an in_review ticket was unclaimed by its reviewer; it is
\* in_review and unassigned.
C17_Witness ==
    /\ reqs[1].pc = "done" /\ reqs[1].op = "unclaim" /\ reqs[1].code = 200
    /\ tickets[reqs[1].id].status = "in_review"
    /\ tickets[reqs[1].id].assigned_reviewer_id = None
    /\ tickets[reqs[1].id].claimed_at = None
    /\ Last(events).kind = "unclaimed"

\* C18: a successful UpdateStatus changes the ticket's status and updated_at
\* only: assigned_reviewer_id, claimed_at and every Result are unchanged, no
\* other ticket is affected, and exactly one status_changed event is
\* appended, from the status before the call to the status requested.
C18_UpdateStatusFrame ==
    [][(Served /\ R.op = "status" /\ R.code = 200) =>
          LET before == tickets[R.id]
              after == tickets'[R.id]
          IN  /\ after.status = R.to
              /\ after.assigned_reviewer_id = before.assigned_reviewer_id
              /\ after.claimed_at = before.claimed_at
              /\ after.user_id = before.user_id
              /\ after.images = before.images
              /\ after.created_at = before.created_at
              /\ R.tbody = Some(after)
              /\ \A id \in DOMAIN tickets \ {R.id} : tickets'[id] = tickets[id]
              /\ results' = results
              /\ Len(events') = Len(events) + 1
              /\ SubSeq(events', 1, Len(events)) = events
              /\ LET e == Last(events') IN
                    /\ e.ticket_id = R.id
                    /\ e.kind = "status_changed"
                    /\ e.from_status = Some(before.status)
                    /\ e.to_status = Some(R.to)]_vars

\* Witness of C18: a ticket held by rev_001 was moved from in_review to
\* need_more_info and is still held by rev_001.
C18_Witness ==
    /\ reqs[1].pc = "done" /\ reqs[1].op = "status" /\ reqs[1].code = 200
    /\ reqs[1].to = "need_more_info"
    /\ tickets[reqs[1].id].status = "need_more_info"
    /\ tickets[reqs[1].id].assigned_reviewer_id = Some("rev_001")
    /\ tickets[reqs[1].id].claimed_at # None
    /\ Last(events).from_status = Some("in_review")

\* C19: in every reachable state, requests interleaving included, every
\* ticket that has a Result has status resolved. An UpdateStatus or a Claim
\* that read the ticket before create_result committed writes its own status
\* after it, so the statement is violated under SpecConc.
C19_ResultImpliesResolved ==
    \A id \in DOMAIN results : tickets[id].status = "resolved"

\* C20: a Claim and a RecordResult issued on the same ticket, in either
\* order and however their steps interleave, never leave the ticket resolved
\* with assigned_reviewer_id still set. create_result keeps the assignment
\* and claim_ticket accepts a resolved ticket, so the statement is violated
\* already when the two requests are served one after the other. Stated
\* for non-empty reviewer IDs.
C20_NeverResolvedButClaimed ==
    \A id \in DOMAIN results :
        (\E i \in 1..Len(events) :
            events[i].ticket_id = id /\ events[i].kind = "claimed")
        => ~(tickets[id].status = "resolved"
             /\ Truthy(tickets[id].assigned_reviewer_id))

\* No request is between its first step and its response.
Quiescent == \A k \in Workers : ~InFlight(k)

\* The positions of history h before position i whose event carries a
\* to_status.
ToBefore(h, i) == {j \in 1..(i - 1) : h[j].to_status # None}

\* The last of a non-empty set of positions.
Latest(P) == CHOOSE j \in P : \A k \in P : k <= j

\* History h is the history of a ticket whose status is status: it begins
\* with the created event, every later event that carries a from_status
\* continues from the to_status of the nearest event before it that carries
\* one, and the last to_status is status.
CanonicalHistory(h, status) ==
    /\ Len(h) > 0
    /\ h[1].kind = "created"
    /\ \A i \in 2..Len(h) :
          h[i].from_status # None =>
             /\ ToBefore(h, i) # {}
             /\ h[i].from_status = h[Latest(ToBefore(h, i))].to_status
    /\ LET P == ToBefore(h, Len(h) + 1)
       IN  P # {} /\ h[Latest(P)].to_status = Some(status)

\* C21: once every request has been answered, requests interleaving
\* included, the events ListByTicket returns for a ticket are its canonical
\* history: the first is the created event, every later event with a
\* from_status continues from the to_status of the nearest event before it
\* that has one, and the last to_status is the ticket's current status.
\* Each handler takes from_status from the row it loaded and writes its
\* event in a transaction of its own, so two requests that loaded the same
\* row both log a step from the same status: the statement is violated
\* under SpecConc.
C21_CanonicalHistory ==
    Quiescent =>
        \A id \in DOMAIN tickets :
            CanonicalHistory(EventsQuery(events, id), tickets[id].status)

====
